---- MODULE Spec2Model ----
(***************************************************************************)
(* The continued-line reader of nchern/cli-tools (the Reader type and the  *)
(* main loop of src/unnamed/part_000, lines 1-206), over a model of the    *)
(* bufio.Reader it reads from; ParseHuman of src/calurl/timex/parse.go;    *)
(* tokenize and process of the log colorizer, src/lcr/main.go.             *)
(*                                                                         *)
(* Bytes are their ASCII codes.  A byte slice is a record                  *)
(*   [isNil |-> BOOLEAN, bytes |-> sequence of bytes, mem |-> where the    *)
(*    bytes live: "none" (nil), "bufio" (the stream buffer), "rbuf" (the   *)
(*    reader's r.buf), "heap" (a fresh allocation)].                       *)
(* The bufio.Reader is the record [rbuf, berr, src, serr]: the buffered    *)
(* unread bytes b.buf[b.r:b.w], the pending error b.err, what the          *)
(* underlying io.Reader has not delivered yet, and the last error that     *)
(* io.Reader returned.                                                     *)
(***************************************************************************)
EXTENDS Integers, Sequences, FiniteSets, TLC

\* ---------------------------------------------------------------- bounds

\* Most physical lines of an input stream.
MaxLines == 3

\* len(b.buf) of the bufio.Reader (4096 in bufio.NewReader; small here so
\* that lines longer than the buffer, which ReadLine returns in fragments,
\* occur).
BufSize == 4

\* ----------------------------------------------------------------- bytes

SP == 32
TAB == 9
LF == 10
CR == 13

\* In a source stream: the underlying Read fails once with an I/O error here.
IOERR == -1

IsWS(c) == c = SP \/ c = TAB

Min(a, b) == IF a < b THEN a ELSE b

\* b |= 0x20 on a byte: set bit 5.
OrLowerBit(b) == IF (b \div 32) % 2 = 1 THEN b ELSE b + 32

isASCIILetter(b) == 97 <= OrLowerBit(b) /\ OrLowerBit(b) <= 122

\* Index of the first c in s, 0 when there is none (bytes.IndexByte + 1).
RECURSIVE IndexFrom(_, _, _)
IndexFrom(s, c, i) ==
    IF i > Len(s) THEN 0
    ELSE IF s[i] = c THEN i
    ELSE IndexFrom(s, c, i + 1)

IndexByte(s, c) == IndexFrom(s, c, 1)

Drop(s, n) == SubSeq(s, n + 1, Len(s))

Take(s, n) == SubSeq(s, 1, n)

\* ---------------------------------------------------------------- slices

NilSlice == [isNil |-> TRUE, bytes |-> <<>>, mem |-> "none"]

Slice(bs, m) == [isNil |-> FALSE, bytes |-> bs, mem |-> m]

\* trim: s[i:n] without the leading and trailing spaces and tabs.
RECURSIVE TrimLeft(_)
TrimLeft(s) ==
    IF Len(s) > 0 /\ IsWS(s[1]) THEN TrimLeft(Tail(s)) ELSE s

RECURSIVE TrimRight(_)
TrimRight(s) ==
    IF Len(s) > 0 /\ IsWS(s[Len(s)]) THEN TrimRight(Take(s, Len(s) - 1)) ELSE s

\* Mutant of trim: the trailing spaces and tabs stay.
TrimNoRight(s) == TrimLeft(s)

trim(s) == TrimRight(TrimLeft(s))

\* --------------------------------------------------------- bufio.Reader

VARIABLES
    input,      \* the whole stream the underlying io.Reader delivers
    endErr,     \* what the underlying Read returns once the stream is over
    br,         \* the bufio.Reader r.R: [rbuf, berr, src, serr]
    delim,      \* r.delim
    buf,        \* r.buf, the reusable accumulation buffer
    caller,     \* "main" (the CLI loop) or "lib" (any caller of the Reader)
    pc,         \* where the caller / the running call stands
    api,        \* the entry point of the running or last call
    validator,  \* validateFirstLine of the running or last call
    line,       \* the first line of the running or last call, as read
    k,          \* continuation lines appended by the running or last call
    absorbed,   \* the error of the continuation read that ended the loop
    startCur,   \* stream cursor when the running or last call began
    startOut,   \* Len(out) when the running or last call began
    ret,        \* what the last call returned: [data, err]
    out,        \* the lines the caller was handed (main prints them), in order
    exit,       \* main's exit: "running", "ok", "fatal"
    pass,       \* how many times main's output was fed to main again
    prev,       \* the output of the pass before
    now,        \* timex: the reference time of ParseHuman, [day, min]
    tokens,     \* timex: the fields of the lower-cased input s of ParseHuman
    res,        \* timex: what ParseHuman returned: [done, ok, t, err]
    vcalls,     \* the calls of validateFirstLine the running or last call
                \* made, in order: [arg, at] (argument, stream cursor)
    lline,      \* lcr: the line process hands tokenize, scanner.Text()
    prod,       \* lcr: tokenize's goroutine: [pc, rest, cur, sym]
    toks,       \* lcr: the channel toks: [q, closed]
    cons        \* lcr: the range loop of process: [pc, got]

vars == <<input, endErr, br, delim, buf, caller, pc, api, validator, line, k,
          absorbed, startCur, startOut, ret, out, exit, pass, prev,
          now, tokens, res, vcalls, lline, prod, toks, cons>>

\* The state of the log colorizer.
lcrVars == <<lline, prod, toks, cons>>

\* time.Time{}, and a time as the model holds it: the day as days since
\* 1970-01-01 and the minute of the day, in the one location of now.
NoTime == [day |-> 0, min |-> 0]

\* ParseHuman has not been called.
NoResult == [done |-> FALSE, ok |-> FALSE, t |-> NoTime, err |-> ""]

\* b.fill(): one Read of the underlying io.Reader into the free space of the
\* buffer.  c is how many bytes that Read delivers at most.
fill(b, c) ==
    IF b.src = <<>> THEN [b EXCEPT !.berr = endErr, !.serr = endErr]
    ELSE IF Head(b.src) = IOERR
        THEN [b EXCEPT !.berr = "IOERR", !.serr = "IOERR", !.src = Tail(b.src)]
    ELSE LET e == IndexByte(b.src, IOERR)
             avail == IF e = 0 THEN Len(b.src) ELSE e - 1
             n == Min(Min(c, BufSize - Len(b.rbuf)), avail)
         IN [b EXCEPT !.rbuf = b.rbuf \o Take(b.src, n),
                      !.src = Drop(b.src, n)]

\* b.ReadSlice('\n'): [line, err, b].
RECURSIVE ReadSlice(_, _)
ReadSlice(b, c) ==
    LET i == IndexByte(b.rbuf, LF) IN
    IF i > 0
        THEN [line |-> Take(b.rbuf, i), err |-> "nil",
              b |-> [b EXCEPT !.rbuf = Drop(b.rbuf, i)]]
    ELSE IF b.berr # "nil"
        THEN [line |-> b.rbuf, err |-> b.berr,
              b |-> [b EXCEPT !.rbuf = <<>>, !.berr = "nil"]]
    ELSE IF Len(b.rbuf) >= BufSize
        THEN [line |-> b.rbuf, err |-> "ErrBufferFull",
              b |-> [b EXCEPT !.rbuf = <<>>]]
    ELSE ReadSlice(fill(b, c), c)

\* b.ReadLine(): [line (a slice), more, err, b].
ReadLine(b, c) ==
    LET s == ReadSlice(b, c)
        n == Len(s.line)
    IN
    IF s.err = "ErrBufferFull"
        THEN IF n > 0 /\ s.line[n] = CR
                THEN [line |-> Slice(Take(s.line, n - 1), "bufio"), more |-> TRUE,
                      err |-> "nil", b |-> [s.b EXCEPT !.rbuf = <<CR>>]]
                ELSE [line |-> Slice(s.line, "bufio"), more |-> TRUE,
                      err |-> "nil", b |-> s.b]
    ELSE IF n = 0
        THEN [line |-> IF s.err # "nil" THEN NilSlice ELSE Slice(s.line, "bufio"),
              more |-> FALSE, err |-> s.err, b |-> s.b]
    ELSE LET drop == IF s.line[n] = LF
                        THEN (IF n > 1 /\ s.line[n - 1] = CR THEN 2 ELSE 1)
                        ELSE 0
         IN [line |-> Slice(Take(s.line, n - drop), "bufio"), more |-> FALSE,
             err |-> "nil", b |-> s.b]

\* b.ReadByte(): [c, err, b].
ReadByte(b, c) ==
    LET b1 == IF b.rbuf = <<>> /\ b.berr = "nil" THEN fill(b, c) ELSE b IN
    IF b1.rbuf = <<>>
        THEN [c |-> 0, err |-> b1.berr, b |-> [b1 EXCEPT !.berr = "nil"]]
        ELSE [c |-> Head(b1.rbuf), err |-> "nil",
              b |-> [b1 EXCEPT !.rbuf = Tail(b1.rbuf)]]

\* b.UnreadByte() right after a ReadByte that returned byte c.
UnreadByte(b, c) == [b EXCEPT !.rbuf = <<c>> \o b.rbuf]

\* b.Buffered().
Buffered(b) == Len(b.rbuf)

\* b.Peek(n) when n bytes are buffered (the only way the reader calls it).
Peek(b, n) == Take(b.rbuf, Min(n, Len(b.rbuf)))

\* --------------------------------------------------------------- Reader

\* Reader.readLineSlice: [line, err, b].
RECURSIVE readLineSliceLoop(_, _, _)
readLineSliceLoop(b, c, acc) ==
    LET l == ReadLine(b, c) IN
    IF l.err # "nil" THEN [line |-> NilSlice, err |-> l.err, b |-> l.b]
    ELSE IF acc.isNil /\ ~l.more THEN [line |-> l.line, err |-> "nil", b |-> l.b]
    ELSE LET acc2 == Slice(acc.bytes \o l.line.bytes, "heap") IN
         IF ~l.more THEN [line |-> acc2, err |-> "nil", b |-> l.b]
         ELSE readLineSliceLoop(l.b, c, acc2)

\* Mutant of readLineSlice: every error is reported as end-of-stream.
readLineSliceEOF(b, c) ==
    LET r == readLineSliceLoop(b, c, NilSlice) IN
    [r EXCEPT !.err = IF r.err = "nil" THEN "nil" ELSE "EOF"]

readLineSlice(b, c) == readLineSliceLoop(b, c, NilSlice)

\* Mutant of skipSpace: only spaces are skipped, not tabs.
RECURSIVE skipSpaceLoopSP(_, _, _)
skipSpaceLoopSP(b, c, n) ==
    LET r == ReadByte(b, c) IN
    IF r.err # "nil" THEN [n |-> n, b |-> r.b]
    ELSE IF r.c # SP THEN [n |-> n, b |-> UnreadByte(r.b, r.c)]
    ELSE skipSpaceLoopSP(r.b, c, n + 1)

skipSpaceSP(b, c) == skipSpaceLoopSP(b, c, 0)

\* Mutant of skipSpace: the byte that ends the run is not put back.
RECURSIVE skipSpaceLoopEat(_, _, _)
skipSpaceLoopEat(b, c, n) ==
    LET r == ReadByte(b, c) IN
    IF r.err # "nil" THEN [n |-> n, b |-> r.b]
    ELSE IF ~IsWS(r.c) THEN [n |-> n, b |-> r.b]
    ELSE skipSpaceLoopEat(r.b, c, n + 1)

skipSpaceEat(b, c) == skipSpaceLoopEat(b, c, 0)

\* Reader.skipSpace: [n, b].
RECURSIVE skipSpaceLoop(_, _, _)
skipSpaceLoop(b, c, n) ==
    LET r == ReadByte(b, c) IN
    IF r.err # "nil" THEN [n |-> n, b |-> r.b]
    ELSE IF ~IsWS(r.c) THEN [n |-> n, b |-> UnreadByte(r.b, r.c)]
    ELSE skipSpaceLoop(r.b, c, n + 1)

skipSpace(b, c) == skipSpaceLoop(b, c, 0)

\* The validators a caller may pass: noValidation, one that rejects a first
\* line starting with '#', one that rejects every line, one that rejects
\* every line with io.EOF, and none at all.
noValidation(l) == "nil"

rejectHash(l) == IF Len(l) > 0 /\ l[1] = 35 THEN "ValidationError" ELSE "nil"

\* Mutant of Validate: the validator's verdict is dropped.
ValidateIgnored(v, l) == noValidation(l)

rejectAll(l) == "ValidationError"

\* A validator whose rejection is the error value io.EOF.
rejectAsEOF(l) == "EOF"

Validate(v, l) ==
    IF v = "rejectHash" THEN rejectHash(l)
    ELSE IF v = "rejectAll" THEN rejectAll(l)
    ELSE IF v = "rejectAsEOF" THEN rejectAsEOF(l)
    ELSE noValidation(l)

\* Mutant of ValidationFailure: the reader reports a kind of its own.
ValidationFailureWrapped(e) == "ValidationError"

\* return nil, err: the error the reader returns for the validator's err.
ValidationFailure(e) == e

\* Mutant of ValidatorArg: the validator is handed the trimmed line.
ValidatorArgTrimmed(l) == trim(l)

\* The argument of validateFirstLine(line): the first line as it was read.
ValidatorArg(l) == l

\* Mutant of MissingValidator: the missing validator goes unnoticed.
MissingValidatorNever(v) == FALSE

\* validateFirstLine == nil.
MissingValidator(v) == v = "nil"

\* Mutant of IsBlank: a blank first line is handled like any other.
IsBlankNever(l) == FALSE

\* len(line) == 0: a blank first line.
IsBlank(l) == Len(l) = 0

\* Mutant of ResetBuf: the first line is appended to what r.buf holds.
ResetBufKeep(b, l) == b \o trim(l)

\* r.buf after r.buf = append(r.buf[:0], trim(line)...).
ResetBuf(b, l) == trim(l)

\* Mutant of AppendCont: the single space of net/textproto, whatever r.delim.
AppendContSpace(b, d, l) == b \o <<SP>> \o trim(l)

\* r.buf after append(r.buf, r.delim...) and append(r.buf, trim(line)...).
AppendCont(b, d, l) == b \o d \o trim(l)

\* Mutant of AfterFailedCont: the error is returned, as for the first line.
AfterFailedContErr(b, e) == [data |-> NilSlice, err |-> e]

\* Mutant of AfterFailedCont: the first line is returned as it was read.
AfterFailedContFirstLine(b, e) == [data |-> line, err |-> "nil"]

\* What readContinuedLineSlice returns when the read of a continuation line
\* fails with e: the loop breaks and r.buf is returned with a nil error.
AfterFailedCont(b, e) == [data |-> Slice(b, "rbuf"), err |-> "nil"]

\* Mutant of FastPathTaken: any two buffered bytes will do.
FastPathTakenAnyByte(b) == Buffered(b) > 1

\* The lookahead of the fast path: the next line is buffered and starts with
\* an ASCII letter, or is blank.
FastPathTaken(b) ==
    /\ Buffered(b) > 1
    /\ LET peek == Peek(b, 2) IN
        \/ Len(peek) > 0 /\ (isASCIILetter(peek[1]) \/ peek[1] = LF)
        \/ Len(peek) = 2 /\ peek[1] = CR /\ peek[2] = LF

\* The general path of readContinuedLineSlice, from the copy of the first
\* line l into r.buf to the return after the loop, run in one go on the
\* stream b with delimiter d: [data (r.buf), b].
RECURSIVE generalLoop(_, _, _, _)
generalLoop(b, acc, d, c) ==
    LET s == skipSpace(b, c) IN
    IF s.n = 0 THEN [data |-> acc, b |-> s.b]
    ELSE LET r == readLineSlice(s.b, c) IN
         IF r.err # "nil" THEN [data |-> acc, b |-> r.b]
         ELSE generalLoop(r.b, AppendCont(acc, d, r.line.bytes), d, c)

generalPath(b, l, d, c) == generalLoop(b, trim(l), d, c)

\* The stream cursor: how many items of the stream the reader has consumed.
Cursor == Len(input) - Len(br.src) - Len(br.rbuf)

\* What one Read of the underlying io.Reader delivers at most: one byte, or
\* all the buffer takes.
Chunks == {1, BufSize}

\* ------------------------------------------------------- input streams

\* A line of letters that fills the stream buffer exactly.
LongLine == [i \in 1..BufSize |-> 97]

\* The physical lines streams are made of (content, no terminator):
\* blank, "a", "#", "\ta # ", " ", and the line as long as the buffer.
LineSet ==
    { <<>>, <<97>>, <<35>>, <<TAB, 97, SP, 35, SP>>, <<SP>>, LongLine }

\* The configured delimiters: the default " ", and "|" (the -d option).
Delims == { <<SP>>, <<124>> }

LineSeqs(n) == UNION { [1..m -> LineSet] : m \in 0..n }

\* The byte stream of the lines ls, each followed by the terminator term,
\* the last only when finalTerm.
RECURSIVE Encode(_, _, _)
Encode(ls, term, finalTerm) ==
    IF Len(ls) = 0 THEN <<>>
    ELSE Head(ls) \o (IF Len(ls) > 1 \/ finalTerm THEN term ELSE <<>>)
         \o Encode(Tail(ls), term, finalTerm)

Terminators == { <<LF>>, <<CR, LF>> }

CleanStreams(n) ==
    { Encode(ls, t, f) : ls \in LineSeqs(n), t \in Terminators, f \in BOOLEAN }

\* The lines of the streams that meet I/O errors.
LineSetIO == { <<>>, <<35>>, <<TAB, 97, SP, 35, SP>> }

\* The streams of at most n lines out of L.
StreamsOf(L, n) ==
    { Encode(ls, t, f) : ls \in UNION { [1..m -> L] : m \in 0..n },
                         t \in Terminators, f \in BOOLEAN }

StreamsIO(n) == StreamsOf(LineSetIO, n)

\* The same and " a", a line shorter than the stream buffer, for the
\* streams that end without I/O error.
LineSetEOF == LineSetIO \cup { <<SP, 97>> }

\* s with a one-shot I/O error of the underlying Read before item i.
WithErr(s, i) == Take(s, i - 1) \o <<IOERR>> \o Drop(s, i - 1)

\* The streams of at most n lines in which the underlying Read fails once
\* with an I/O error, at any place, and delivers the rest afterwards.
ErrStreams(n) ==
    UNION { { WithErr(s, i) : i \in 1..(Len(s) + 1) } : s \in StreamsIO(n) }

\* ---------------------------------------------------------------- Init

NewReader(s) == [rbuf |-> <<>>, berr |-> "nil", src |-> s, serr |-> "nil"]

InitReader(S, E, C, D) ==
    /\ input \in S
    /\ endErr \in E
    /\ br = NewReader(input)
    /\ delim \in D
    /\ buf = <<>>
    /\ caller \in C
    /\ pc = "idle"
    /\ api = "none"
    /\ validator = "none"
    /\ line = NilSlice
    /\ k = 0
    /\ absorbed = "nil"
    /\ startCur = 0
    /\ startOut = 0
    /\ pass = 0
    /\ prev = <<>>
    /\ ret = [data |-> NilSlice, err |-> "nil"]
    /\ out = <<>>
    /\ exit = "running"
    /\ vcalls = <<>>

\* The log colorizer before process has scanned a line.
NoProducer == [pc |-> "none", rest |-> <<>>, cur |-> <<>>, sym |-> <<>>]
NoChannel == [q |-> <<>>, closed |-> FALSE]
NoConsumer == [pc |-> "none", got |-> <<>>]

\* ParseHuman and the log colorizer are not in play.
TimeIdle ==
    /\ now = NoTime /\ tokens = <<>> /\ res = NoResult
    /\ lline = <<>> /\ prod = NoProducer /\ toks = NoChannel /\ cons = NoConsumer

\* The CLI, with either delimiter, on streams that end with end-of-stream or
\* with an I/O error that stays.
Init ==
    /\ InitReader(CleanStreams(MaxLines), {"EOF", "IOERR"}, {"main"}, Delims)
    /\ TimeIdle

\* Any caller, with the default delimiter, on streams that end with an I/O
\* error that stays, or with end-of-stream, or that meet a one-shot I/O error
\* and then end with end-of-stream.
InitIO ==
    /\ TimeIdle
    /\ \/ InitReader(StreamsIO(MaxLines - 1), {"IOERR"}, {"main", "lib"}, {<<SP>>})
       \/ InitReader(StreamsOf(LineSetEOF, MaxLines - 1), {"EOF"}, {"main", "lib"}, {<<SP>>})
       \/ InitReader(ErrStreams(MaxLines - 1), {"EOF"}, {"main", "lib"}, {<<SP>>})

\* -------------------------------------------------------------- actions

\* Mutant of Wrap: the byte form hands out the reader's own slice.
WrapNoCopy(a, d, e) == [data |-> d, err |-> e]

\* What the entry point a hands its caller for readContinuedLineSlice's
\* (d, e): string(line), a copy of line, or line itself.
Wrap(a, d, e) ==
    IF a = "ReadContinuedLine"
        THEN [data |-> Slice(d.bytes, "string"), err |-> e]
    ELSE IF a = "ReadContinuedLineBytes"
        THEN [data |-> IF d.isNil THEN d ELSE Slice(d.bytes, "heap"), err |-> e]
    ELSE [data |-> d, err |-> e]

\* Mutant of Emit: the string is printed whatever the error.
EmitAlways(o, d, e) == Append(o, d.bytes)

\* main's loop body: break on an error, fmt.Println(s) otherwise.
Emit(o, d, e) == IF e = "nil" THEN Append(o, d.bytes) ELSE o

\* Mutant of ExitOf: no error ends main's loop.
ExitOfNever(x, e) == x

\* Mutant of ExitOf: main returns normally whatever the error.
ExitOfOk(x, e) == IF e = "nil" THEN x ELSE "ok"

\* main after the loop: log.Fatalf (one message, exit status 1) unless the
\* error is io.EOF; x while the loop goes on.
ExitOf(x, e) ==
    IF e = "nil" THEN x ELSE IF e = "EOF" THEN "ok" ELSE "fatal"

\* readContinuedLineSlice returns (d, e) to its entry point, and that to its
\* caller, which keeps a line it is handed; main prints the line, or leaves
\* its loop and exits.
Finish(d, e) ==
    /\ ret' = Wrap(api', d, e)
    /\ pc' = "idle"
    /\ out' = Emit(out, d, e)
    /\ exit' = IF caller # "main" THEN exit ELSE ExitOf(exit, e)

\* A call of ReadContinuedLine, ReadContinuedLineBytes or
\* readContinuedLineSlice, up to the validation of the first line.
Call(a, v, c) ==
    /\ pc = "idle"
    /\ exit = "running"
    /\ caller = "main" => a = "ReadContinuedLine"
    /\ caller = "lib" => a # "ReadContinuedLine"
    /\ (a = "readContinuedLineSlice") = (v # "noValidation")
    /\ api' = a
    /\ validator' = v
    /\ startCur' = Cursor
    /\ startOut' = Len(out)
    /\ k' = 0
    /\ absorbed' = "nil"
    /\ UNCHANGED <<lcrVars, now, tokens, res, input, endErr, delim, buf, caller, pass, prev>>
    /\ IF MissingValidator(v)
        THEN /\ Finish(NilSlice, "ConfigurationError")
             /\ UNCHANGED <<br, line>>
             /\ vcalls' = <<>>
        ELSE LET r == readLineSlice(br, c)
                 arg == ValidatorArg(r.line.bytes)
             IN
             /\ br' = r.b
             /\ line' = r.line
             /\ IF r.err # "nil"
                    THEN Finish(NilSlice, r.err) /\ vcalls' = <<>>
                ELSE IF IsBlank(r.line.bytes)
                    THEN Finish(r.line, "nil") /\ vcalls' = <<>>
                ELSE /\ vcalls' = <<[arg |-> arg, at |-> Cursor']>>
                     /\ IF Validate(v, arg) # "nil"
                            THEN Finish(NilSlice, ValidationFailure(Validate(v, arg)))
                            ELSE /\ pc' = "fast"
                                 /\ UNCHANGED <<ret, out, exit>>

\* The fast path, or the copy of the first line into r.buf.
FastPath ==
    /\ pc = "fast"
    /\ UNCHANGED <<lcrVars, vcalls, now, tokens, res, input, endErr, br, delim, caller, api, validator, line, k,
                   absorbed, startCur, startOut, pass, prev>>
    /\ IF FastPathTaken(br)
        THEN /\ Finish(Slice(trim(line.bytes), line.mem), "nil")
             /\ UNCHANGED buf
        ELSE /\ buf' = ResetBuf(buf, line.bytes)
             /\ pc' = "skip"
             /\ UNCHANGED <<ret, out, exit>>

\* The loop condition r.skipSpace() > 0, and the return after the loop.
SkipSpace(c) ==
    /\ pc = "skip"
    /\ UNCHANGED <<lcrVars, vcalls, now, tokens, res, input, endErr, delim, buf, caller, api, validator, line, k,
                   absorbed, startCur, startOut, pass, prev>>
    /\ LET s == skipSpace(br, c) IN
        /\ br' = s.b
        /\ IF s.n > 0
            THEN /\ pc' = "cont"
                 /\ UNCHANGED <<ret, out, exit>>
            ELSE Finish(Slice(buf, "rbuf"), "nil")

\* The loop body: read a continuation line and append it, or break.
ReadContLine(c) ==
    /\ pc = "cont"
    /\ UNCHANGED <<lcrVars, vcalls, now, tokens, res, input, endErr, delim, caller, api, validator, line,
                   startCur, startOut, pass, prev>>
    /\ LET r == readLineSlice(br, c) IN
        /\ br' = r.b
        /\ IF r.err # "nil"
            THEN /\ absorbed' = r.err
                 /\ Finish(AfterFailedCont(buf, r.err).data,
                           AfterFailedCont(buf, r.err).err)
                 /\ UNCHANGED <<buf, k>>
            ELSE /\ buf' = AppendCont(buf, delim, r.line.bytes)
                 /\ k' = k + 1
                 /\ pc' = "skip"
                 /\ UNCHANGED <<absorbed, ret, out, exit>>

Apis == {"ReadContinuedLine", "ReadContinuedLineBytes", "readContinuedLineSlice"}

Validators == {"noValidation", "rejectHash", "rejectAll", "rejectAsEOF", "nil"}

Next ==
    \/ \E a \in Apis, v \in Validators, c \in Chunks : Call(a, v, c)
    \/ FastPath
    \/ \E c \in Chunks : SkipSpace(c)
    \/ \E c \in Chunks : ReadContLine(c)

Spec == Init /\ [][Next]_vars

SpecIO == InitIO /\ [][Next]_vars

\* The CLI as it runs: main is one sequential program, which takes its next
\* step as long as it has one.
InitLive ==
    /\ InitReader(CleanStreams(MaxLines - 1), {"EOF", "IOERR"}, {"main"}, {<<SP>>})
    /\ TimeIdle

\* The steps of main that read the stream.
ReadStep ==
    \/ \E a \in Apis, v \in Validators, c \in Chunks : Call(a, v, c)
    \/ \E c \in Chunks : SkipSpace(c)
    \/ \E c \in Chunks : ReadContLine(c)

\* main has such a step to take: the loop has not ended and no call is
\* running, or a call is in its continuation loop.
CanRead == (pc = "idle" /\ exit = "running") \/ pc \in {"skip", "cont"}

\* Weak fairness of main's steps: a sequential program takes its next step.
\* For the steps that read the stream it is written out, WF_vars(A) being
\* []<>~ENABLED <<A>>_vars \/ []<><<A>>_vars, with CanRead for ENABLED.
SpecLive ==
    /\ InitLive
    /\ [][Next]_vars
    /\ WF_vars(FastPath)
    /\ ([]<>(~CanRead) \/ []<><<ReadStep>>_vars)

\* ------------------------------------------------------- folded streams

\* Longest L and L2 of a folded stream.
MaxFoldLen == 2

FoldBytes == {97, 35, SP, TAB}

FoldLines == UNION { [1..n -> FoldBytes] : n \in 0..MaxFoldLen }

\* L, then the continuation line "\t" + L2, each with its terminator.
FoldStreams ==
    { Encode(<<l1, <<TAB>> \o l2>>, t, TRUE) :
        l1 \in FoldLines, l2 \in FoldLines, t \in Terminators }

InitFold == InitReader(FoldStreams, {"EOF"}, {"main"}, {<<SP>>}) /\ TimeIdle

SpecFold == InitFold /\ [][Next]_vars

\* ---------------------------------------------------- decoding again

\* Most times main's output is decoded again.
MaxPasses == 2

\* The lines of the streams decoded again: blank, "a", "# ", "a\r", the
\* line as long as the buffer, and one continuation line, " a".
LineSetRe == { <<>>, <<97>>, <<35, SP>>, <<97, CR>>, LongLine, <<SP, 97>> }

StreamsRe ==
    { Encode(ls, t, f) : ls \in UNION { [1..m -> LineSetRe] : m \in 0..MaxLines },
                         t \in Terminators, f \in BOOLEAN }

\* What fmt.Println wrote for the lines ls: each followed by "\n".
RECURSIVE Println(_)
Println(ls) ==
    IF Len(ls) = 0 THEN <<>> ELSE Head(ls) \o <<LF>> \o Println(Tail(ls))

InitRe == InitReader(StreamsRe, {"EOF"}, {"main"}, {<<SP>>}) /\ TimeIdle

\* main has exited normally; it is run again on what it printed.
Redecode ==
    /\ caller = "main"
    /\ exit = "ok"
    /\ pass < MaxPasses
    /\ input' = Println(out)
    /\ br' = NewReader(input')
    /\ buf' = <<>>
    /\ pc' = "idle"
    /\ api' = "none"
    /\ validator' = "none"
    /\ line' = NilSlice
    /\ k' = 0
    /\ absorbed' = "nil"
    /\ startCur' = 0
    /\ startOut' = 0
    /\ ret' = [data |-> NilSlice, err |-> "nil"]
    /\ prev' = out
    /\ out' = <<>>
    /\ exit' = "running"
    /\ pass' = pass + 1
    /\ vcalls' = <<>>
    /\ UNCHANGED <<lcrVars, now, tokens, res, endErr, delim, caller>>

NextRe == Next \/ Redecode

SpecRe == InitRe /\ [][NextRe]_vars

\* ------------------------------------------------ calurl/timex: the calendar

\* time.Date(y, m, d, 0, 0, ...) as days since 1970-01-01, with Go's
\* normalisation of a day outside the month (m is in 1..12, y > 0).
DaysFromCivil(y, m, d) ==
    LET y1 == IF m <= 2 THEN y - 1 ELSE y
        era == y1 \div 400
        yoe == y1 - era * 400
        mp == IF m > 2 THEN m - 3 ELSE m + 9
        doy == (153 * mp + 2) \div 5 + d - 1
        doe == yoe * 365 + yoe \div 4 - yoe \div 100 + doy
    IN era * 146097 + doe - 719468

\* t.Year(), t.Month(), t.Day() of the day z: [y, m, d].
CivilFromDays(z) ==
    LET z1 == z + 719468
        era == z1 \div 146097
        doe == z1 - era * 146097
        yoe == (doe - doe \div 1460 + doe \div 36524 - doe \div 146096) \div 365
        doy == doe - (365 * yoe + yoe \div 4 - yoe \div 100)
        mp == (5 * doy + 2) \div 153
        d == doy - (153 * mp + 2) \div 5 + 1
        m == IF mp < 10 THEN mp + 3 ELSE mp - 9
    IN [y |-> yoe + era * 400 + (IF m <= 2 THEN 1 ELSE 0), m |-> m, d |-> d]

\* time.Date(y, m, d, h, mi, 0, 0, loc).
Date(y, m, d, h, mi) == [day |-> DaysFromCivil(y, m, d), min |-> 60 * h + mi]

\* t.Weekday(): 0 is Sunday; 1970-01-01 was a Thursday.
Weekday(t) == (t.day + 4) % 7

\* t.AddDate(0, 0, n) and t.AddDate(1, 0, 0).
AddDays(t, n) == [t EXCEPT !.day = @ + n]

AddYear(t) ==
    LET c == CivilFromDays(t.day) IN
    [t EXCEPT !.day = DaysFromCivil(c.y + 1, c.m, c.d)]

\* t.Before(u).
Before(t, u) == t.day < u.day \/ (t.day = u.day /\ t.min < u.min)

\* ------------------------------------------------- calurl/timex: tokens

\* A field of the lower-cased input, by what the parsers make of its text:
\* k its kind, w the text of a word, num what strconv.Atoi returns for an
\* integer, pre the number its leading digits spell (-1 without any), and
\* the date and clock a layout of time.ParseInLocation reads from it.
Tok(kd, w, num, pre, y, m, d, h, mi) ==
    [k |-> kd, w |-> w, num |-> num, pre |-> pre,
     y |-> y, m |-> m, d |-> d, h |-> h, mi |-> mi]

\* A word of letters, such as "next".
TokWord(w) == Tok("word", w, 0, -1, 0, 0, 0, 0, 0)

\* A decimal integer, such as "3" or "-1".
TokInt(v) == Tok("int", "", v, IF v >= 0 THEN v ELSE -1, 0, 0, 0, 0, 0)

\* Digits and a suffix of letters, such as "17th".
TokOrd(v) == Tok("ord", "", 0, v, 0, 0, 0, 0, 0)

\* A clock text such as "9am", "4:57pm" or "14:00": leading digits pre,
\* hour h and minute mi as written (out of range in a text like "25:00").
TokClock(pre, h, mi) == Tok("clock", "", 0, pre, 0, 0, 0, h, mi)

\* "2006-01-02" for a date of the calendar.
TokDate(y, m, d) == Tok("date", "", 0, y, y, m, d, 0, 0)

\* "2006-01-02t15:04", lower-cased.
TokDateTime(y, m, d, h, mi) == Tok("datetime", "", 0, y, y, m, d, h, mi)

\* The empty timeToken.
NoToken == TokWord("")

Ok(t) == [done |-> TRUE, ok |-> TRUE, t |-> t, err |-> ""]

Fail(e) == [done |-> TRUE, ok |-> FALSE, t |-> NoTime, err |-> e]

\* ------------------------------------------------ calurl/timex: parse.go

\* splitTimeToken: [base, timeToken].
RECURSIVE splitTimeTokenFrom(_, _)
splitTimeTokenFrom(ts, i) ==
    IF i > Len(ts) - 1 THEN [base |-> ts, timeToken |-> NoToken]
    ELSE IF ts[i] = TokWord("at")
        THEN [base |-> Take(ts, i - 1), timeToken |-> ts[i + 1]]
    ELSE splitTimeTokenFrom(ts, i + 1)

splitTimeToken(ts) == splitTimeTokenFrom(ts, 1)

\* monthFromString: the month, 0 when there is none.
monthFromString(w) ==
    CASE w \in {"jan", "january"} -> 1
      [] w \in {"feb", "february"} -> 2
      [] w \in {"mar", "march"} -> 3
      [] w \in {"apr", "april"} -> 4
      [] w = "may" -> 5
      [] w \in {"jun", "june"} -> 6
      [] w \in {"jul", "july"} -> 7
      [] w \in {"aug", "august"} -> 8
      [] w \in {"sep", "sept", "september"} -> 9
      [] w \in {"oct", "october"} -> 10
      [] w \in {"nov", "november"} -> 11
      [] w \in {"dec", "december"} -> 12
      [] OTHER -> 0

\* weekdayFromString: the weekday, -1 when there is none.
weekdayFromString(w) ==
    CASE w \in {"sun", "sunday"} -> 0
      [] w \in {"mon", "monday"} -> 1
      [] w \in {"tue", "tuesday"} -> 2
      [] w \in {"wed", "wednesday"} -> 3
      [] w \in {"thu", "thursday"} -> 4
      [] w \in {"fri", "friday"} -> 5
      [] w \in {"sat", "saturday"} -> 6
      [] OTHER -> -1

\* The words the inner switch of parseRelativeDate takes for weekdays.
WeekdayWords ==
    {"mon", "monday", "tue", "tuesday", "wed", "wednesday", "thu",
     "thursday", "fri", "friday", "sat", "saturday", "sun", "sunday"}

\* Mutant of nextWeekday: today counts when it is the target weekday.
nextWeekdayOrToday(from, target) ==
    AddDays(from, (target - Weekday(from) + 7) % 7)

nextWeekday(from, target) ==
    LET offset == (target - Weekday(from) + 7) % 7 IN
    AddDays(from, IF offset = 0 THEN 7 ELSE offset)

\* stripDaySuffix: the number of the leading digits, -1 for its error.
stripDaySuffix(t) == t.pre

\* parseMonthDay: [ok, t].
parseMonthDay(ts, n) ==
    IF Len(ts) < 2 THEN [ok |-> FALSE, t |-> NoTime]
    ELSE IF ts[1].k # "word" \/ monthFromString(ts[1].w) = 0
        THEN [ok |-> FALSE, t |-> NoTime]
    ELSE IF stripDaySuffix(ts[2]) < 0 THEN [ok |-> FALSE, t |-> NoTime]
    ELSE LET t == Date(CivilFromDays(n.day).y, monthFromString(ts[1].w),
                       stripDaySuffix(ts[2]), 0, 0)
         IN [ok |-> TRUE, t |-> IF Before(t, n) THEN AddYear(t) ELSE t]

\* parseRelativeDate, from token i on with the base reached so far.
RECURSIVE parseRelativeFrom(_, _, _)
parseRelativeFrom(ts, i, base) ==
    IF i > Len(ts) THEN Ok(base)
    ELSE LET w == IF ts[i].k = "word" THEN ts[i].w ELSE "" IN
    IF w = "today" THEN parseRelativeFrom(ts, i + 1, base)
    ELSE IF w = "tomorrow" THEN parseRelativeFrom(ts, i + 1, AddDays(base, 1))
    ELSE IF w = "next" THEN
        IF i + 1 > Len(ts) THEN Fail("'next' requires additional token")
        ELSE LET u == IF ts[i + 1].k = "word" THEN ts[i + 1].w ELSE "" IN
             IF u = "day" THEN parseRelativeFrom(ts, i + 2, AddDays(base, 1))
             ELSE IF u = "week"
                 THEN parseRelativeFrom(ts, i + 2, AddDays(base, 7))
             ELSE IF u \in WeekdayWords THEN
                 IF weekdayFromString(u) < 0
                     THEN Fail("unknown token after 'next'")
                     ELSE parseRelativeFrom(ts, i + 2,
                              nextWeekday(base, weekdayFromString(u)))
             ELSE Fail("unknown token after 'next'")
    ELSE IF w = "in" THEN
        IF i + 2 > Len(ts) THEN Fail("invalid 'in' syntax")
        ELSE IF ts[i + 1].k # "int" THEN Fail("invalid number in 'in' clause")
        ELSE LET u == IF ts[i + 2].k = "word" THEN ts[i + 2].w ELSE ""
                 n == ts[i + 1].num
             IN IF u \in {"day", "days"}
                    THEN parseRelativeFrom(ts, i + 3, AddDays(base, n))
                ELSE IF u \in {"week", "weeks"}
                    THEN parseRelativeFrom(ts, i + 3, AddDays(base, 7 * n))
                ELSE Fail("unknown unit in 'in' clause")
    ELSE Fail("unknown token")

parseRelativeDate(ts, n) == parseRelativeFrom(ts, 1, n)

\* buildDateTime: the layouts "15:04", "3pm" and "3:04pm" read a clock text
\* whose hour and minute are in range, the layout "15" an integer that is
\* an hour.
buildDateTime(date, t) ==
    LET c == CivilFromDays(date.day) IN
    IF t.k = "clock" /\ t.h \in 0..23 /\ t.mi \in 0..59
        THEN Ok(Date(c.y, c.m, c.d, t.h, t.mi))
    ELSE IF t.k = "int" /\ t.num \in 0..23
        THEN Ok(Date(c.y, c.m, c.d, t.num, 0))
    ELSE Fail("invalid time format")

\* Mutant of applyTimeIfNeeded: without a time the clock of the date stays.
applyTimeKeepClock(date, timeToken) ==
    IF timeToken = NoToken THEN Ok(date) ELSE buildDateTime(date, timeToken)

applyTimeIfNeeded(date, timeToken) ==
    LET c == CivilFromDays(date.day) IN
    IF timeToken = NoToken THEN Ok(Date(c.y, c.m, c.d, 0, 0))
    ELSE buildDateTime(date, timeToken)

ParseHuman(n, ts) ==
    IF Len(ts) = 1 /\ ts[1].k = "datetime"
        THEN Ok(Date(ts[1].y, ts[1].m, ts[1].d, ts[1].h, ts[1].mi))
    ELSE IF Len(ts) = 0 THEN Fail("empty input")
    ELSE LET sp == splitTimeToken(ts)
             md == parseMonthDay(sp.base, n)
             rel == parseRelativeDate(sp.base, n)
         IN IF Len(sp.base) > 0 /\ sp.base[1].k = "date"
                THEN applyTimeIfNeeded(
                         Date(sp.base[1].y, sp.base[1].m, sp.base[1].d, 0, 0),
                         sp.timeToken)
            ELSE IF md.ok THEN applyTimeIfNeeded(md.t, sp.timeToken)
            ELSE IF ~rel.ok THEN rel
            ELSE applyTimeIfNeeded(rel.t, sp.timeToken)

\* ---------------------------------------------- calurl/timex: the inputs

\* Most tokens of an input made of any tokens, and the largest N of "in N".
MaxTokens == 3
MaxCount == 2

\* The reference times: the test's 2025-05-01 12:00, and each weekday of
\* the week from 2024-02-26 on, across a leap day and a month's end, at
\* midnight and at noon.
NowSet ==
    { Date(2025, 5, 1, 12, 0) } \cup
    { AddDays(Date(2024, 2, 26, h, 0), i) : i \in 0..6, h \in {0, 12} }

\* The times after "at": "9am", "4:57pm", "14:00", "15", and none.
AtClauses ==
    { <<>> } \cup
    { <<TokWord("at"), t>> :
        t \in { TokClock(9, 9, 0), TokClock(4, 16, 57), TokClock(14, 14, 0),
                TokInt(15) } }

\* The relative expressions: "tomorrow", "next day", "next week", "next W"
\* for every name of a weekday, "in N days" and "in N weeks".
RelPhrases ==
    { <<TokWord("tomorrow")>>, <<TokWord("next"), TokWord("day")>>,
      <<TokWord("next"), TokWord("week")>> } \cup
    { <<TokWord("next"), TokWord(w)>> : w \in WeekdayWords } \cup
    { <<TokWord("in"), TokInt(n), TokWord(u)>> :
        n \in (-1)..MaxCount, u \in {"day", "days", "week", "weeks"} }

RelInputs == { p \o a : p \in RelPhrases, a \in AtClauses }

\* The tokens of the inputs made of any tokens: "next", "at", "in",
\* "tomorrow", "mon", "days", "jul", "foo", "2", "9am", "2025-05-03".
AnyTokens ==
    { TokWord("next"), TokWord("at"), TokWord("in"), TokWord("tomorrow"),
      TokWord("mon"), TokWord("days"), TokWord("jul"), TokWord("foo"),
      TokInt(2), TokClock(9, 9, 0), TokDate(2025, 5, 3) }

AnyInputs == UNION { [1..n -> AnyTokens] : n \in 0..MaxTokens }

\* Whole inputs in the layout "2006-01-02T15:04".
DirectInputs == { <<TokDateTime(2025, 5, 3, 14, 17)>> }

InitTime ==
    /\ InitReader({<<>>}, {"EOF"}, {"lib"}, {<<SP>>})
    /\ now \in NowSet
    /\ tokens \in RelInputs \cup AnyInputs \cup DirectInputs
    /\ res = NoResult
    /\ lline = <<>> /\ prod = NoProducer /\ toks = NoChannel /\ cons = NoConsumer

\* A call ParseHuman(now, s).
Parse ==
    /\ ~res.done
    /\ res' = ParseHuman(now, tokens)
    /\ UNCHANGED <<lcrVars, vcalls, now, tokens, input, endErr, br, delim, buf, caller, pc,
                   api, validator, line, k, absorbed, startCur, startOut,
                   ret, out, exit, pass, prev>>

NextTime == Parse

SpecTime == InitTime /\ [][NextTime]_vars

\* ------------------------------------------------- lcr: tokenize, process

\* The capacity of the channel toks (256 in the code), and the longest line.
ChanCap == 2
MaxLineLen == 4

\* utf8.RuneError, U+FFFD.
RuneError == 65533

\* The rune the string s begins with and its width in bytes, as range
\* decodes it, for strings of bytes below 0xE0: an ASCII byte, a two-byte
\* form (lead 0xC2..0xDF and one continuation byte 0x80..0xBF), or
\* RuneError with width 1 for a byte that begins no valid form.
DecodeRune(s) ==
    IF s[1] < 128 THEN [r |-> s[1], size |-> 1]
    ELSE IF s[1] >= 194 /\ s[1] <= 223 /\ Len(s) >= 2
                /\ s[2] >= 128 /\ s[2] <= 191
        THEN [r |-> (s[1] - 192) * 64 + (s[2] - 128), size |-> 2]
    ELSE [r |-> RuneError, size |-> 1]

\* string(v): the UTF-8 encoding of the rune v, for v below 0x800 and for
\* RuneError.
RuneString(r) ==
    IF r < 128 THEN <<r>>
    ELSE IF r < 2048 THEN <<192 + (r \div 64), 128 + (r % 64)>>
    ELSE <<239, 191, 189>>

\* terminalSymbols: " ", "[", "]", "(", ")", "=".
terminalSymbols == { <<32>>, <<91>>, <<93>>, <<40>>, <<41>>, <<61>> }

\* The channel ch can take the token s of emit(s) now: emit sends nothing
\* for the empty string, and a send blocks while the channel is full.
CanEmit(ch, s) == s = <<>> \/ Len(ch.q) < ChanCap

\* The channel after emit(s).
emit(ch, s) == IF s = <<>> THEN ch ELSE [ch EXCEPT !.q = Append(@, s)]

\* The bytes lines are made of: "a", " ", "=", and the two bytes of "e"
\* with an acute accent, 0xC3 0xA9, each of which alone is not valid UTF-8.
LcrBytes == { 97, 32, 61, 195, 169 }

LcrLines == UNION { [1..n -> LcrBytes] : n \in 0..MaxLineLen }

\* The reader and ParseHuman, which the log colorizer does not touch.
cliVars == <<input, endErr, br, delim, buf, caller, pc, api, validator, line,
             k, absorbed, startCur, startOut, ret, out, exit, pass, prev,
             now, tokens, res, vcalls>>

\* process has scanned a line and called tokenize, which has made the
\* channel and started its goroutine; process is about to range over it.
InitLcr ==
    /\ InitReader({<<>>}, {"EOF"}, {"lib"}, {<<SP>>})
    /\ now = NoTime /\ tokens = <<>> /\ res = NoResult
    /\ lline \in LcrLines
    /\ prod = [pc |-> "range", rest |-> lline, cur |-> <<>>, sym |-> <<>>]
    /\ toks = NoChannel
    /\ cons = [pc |-> "range", got |-> <<>>]

\* The goroutine: one iteration of for _, v := range line, up to the first
\* emit, or the end of the loop.
Range ==
    /\ prod.pc = "range"
    /\ IF prod.rest = <<>>
        THEN prod' = [prod EXCEPT !.pc = "last"]
        ELSE LET v == DecodeRune(prod.rest)
                 s == RuneString(v.r)
             IN IF s \in terminalSymbols
                 THEN prod' = [prod EXCEPT !.pc = "emitCur", !.sym = s,
                                           !.rest = Drop(@, v.size)]
                 ELSE prod' = [prod EXCEPT !.cur = @ \o s,
                                           !.rest = Drop(@, v.size)]
    /\ UNCHANGED <<cliVars, lline, toks, cons>>

\* The goroutine: emit(cur) before a terminal symbol.
EmitCur ==
    /\ prod.pc = "emitCur"
    /\ CanEmit(toks, prod.cur)
    /\ toks' = emit(toks, prod.cur)
    /\ prod' = [prod EXCEPT !.pc = "emitSym"]
    /\ UNCHANGED <<cliVars, lline, cons>>

\* The goroutine: emit(s) of the terminal symbol, cur = "", continue.
EmitSym ==
    /\ prod.pc = "emitSym"
    /\ CanEmit(toks, prod.sym)
    /\ toks' = emit(toks, prod.sym)
    /\ prod' = [prod EXCEPT !.pc = "range", !.cur = <<>>, !.sym = <<>>]
    /\ UNCHANGED <<cliVars, lline, cons>>

\* The goroutine: emit(cur) after the loop.
EmitLast ==
    /\ prod.pc = "last"
    /\ CanEmit(toks, prod.cur)
    /\ toks' = emit(toks, prod.cur)
    /\ prod' = [prod EXCEPT !.pc = "close", !.cur = <<>>]
    /\ UNCHANGED <<cliVars, lline, cons>>

\* The goroutine: close(toks).
Close ==
    /\ prod.pc = "close"
    /\ toks' = [toks EXCEPT !.closed = TRUE]
    /\ prod' = [prod EXCEPT !.pc = "done"]
    /\ UNCHANGED <<cliVars, lline, cons>>

\* process: for cur := range toks receives a token and appends it.
Receive ==
    /\ cons.pc = "range"
    /\ toks.q # <<>>
    /\ cons' = [cons EXCEPT !.got = Append(@, Head(toks.q))]
    /\ toks' = [toks EXCEPT !.q = Tail(@)]
    /\ UNCHANGED <<cliVars, lline, prod>>

\* process: the channel is closed and empty, the range loop ends.
EndRange ==
    /\ cons.pc = "range"
    /\ toks.q = <<>>
    /\ toks.closed
    /\ cons' = [cons EXCEPT !.pc = "done"]
    /\ UNCHANGED <<cliVars, lline, prod, toks>>

NextLcr ==
    \/ Range
    \/ EmitCur
    \/ EmitSym
    \/ EmitLast
    \/ Close
    \/ Receive
    \/ EndRange

SpecLcr == InitLcr /\ [][NextLcr]_vars

\* ------------------------------------------------- the stream's own lines

\* The physical lines of the byte stream s, as "\n" and "\r\n" delimit them:
\* each a record [c |-> content, t |-> terminated].
RECURSIVE PhysLines(_)
PhysLines(s) ==
    LET i == IndexByte(s, LF) IN
    IF Len(s) = 0 THEN <<>>
    ELSE IF i = 0 THEN << [c |-> s, t |-> FALSE] >>
    ELSE LET body == Take(s, i - 1)
             n == Len(body)
             c == IF n > 0 /\ body[n] = CR THEN Take(body, n - 1) ELSE body
         IN << [c |-> c, t |-> TRUE] >> \o PhysLines(Drop(s, i))

\* The bytes the folding convention calls horizontal white space.
WS == {SP, TAB}

\* l without its leading and trailing spaces and tabs: from its first byte
\* that is neither to its last.
Stripped(l) ==
    LET I == { i \in 1..Len(l) : l[i] \notin WS } IN
    IF I = {} THEN <<>>
    ELSE SubSeq(l, CHOOSE i \in I : \A j \in I : i <= j,
                   CHOOSE i \in I : \A j \in I : i >= j)

\* Stripped(l1) d Stripped(l2) d ... for the lines ls.
RECURSIVE JoinTrim(_, _)
JoinTrim(ls, d) ==
    IF Len(ls) = 0 THEN <<>>
    ELSE IF Len(ls) = 1 THEN Stripped(ls[1].c)
    ELSE Stripped(ls[1].c) \o d \o JoinTrim(Tail(ls), d)

\* The part of the stream the last call consumed, and its physical lines.
Span == SubSeq(input, startCur + 1, Cursor)

SpanLines == PhysLines(Span)

\* The last call has returned.
Returned == pc = "idle" /\ api # "none"

ReturnedLine == Returned /\ ret.err = "nil"

AllWS(l) == \A i \in 1..Len(l) : l[i] \in WS

StartsWS(l) == Len(l) > 0 /\ l[1] \in WS

\* A continuation line whose read fails at the end of the stream: it has no
\* terminator and holds only spaces and tabs, so skipSpace consumes all of
\* it and the line read that follows finds the stream over.
DroppedTail(ls) ==
    /\ Len(ls) > 1
    /\ ~ls[Len(ls)].t
    /\ AllWS(ls[Len(ls)].c)

\* The lines of ls other than such a tail.
Joined(ls) == IF DroppedTail(ls) THEN Take(ls, Len(ls) - 1) ELSE ls

RECURSIVE Count(_, _)
Count(s, c) ==
    IF Len(s) = 0 THEN 0
    ELSE (IF Head(s) = c THEN 1 ELSE 0) + Count(Tail(s), c)

RECURSIVE SumTrimLen(_)
SumTrimLen(ls) ==
    IF Len(ls) = 0 THEN 0 ELSE Len(Stripped(ls[1].c)) + SumTrimLen(Tail(ls))

\* The stream the reader has not consumed yet, up to the first I/O error.
Unread == Drop(input, Cursor)

\* The cursor stands at the start of a physical line, or at the end.
AtLineStart(cur) == cur = 0 \/ cur = Len(input) \/ input[cur] = LF

MainCall == ReturnedLine /\ api = "ReadContinuedLine"

InWS(c) == c \in WS

\* ------------------------------------------------------------------ C1
\* C1: every logical line ReadContinuedLine returns is its first line
\* without its leading and trailing spaces and tabs, followed, for each
\* continuation line of its record in stream order, by the delimiter and
\* that line stripped in the same way.  Stated in the code's favour:
\* a trailing line of only spaces and tabs that the stream ends on, whose
\* read fails at the end of the stream, is not counted as a continuation
\* line.  The code breaks it all the same: a last continuation line without
\* terminator whose unread rest fills the stream buffer a whole number of
\* times is consumed and left out of the result (streams that end with
\* end-of-stream; no I/O error is involved).
C1_LineIsJoinOfItsLines ==
    (MainCall /\ endErr = "EOF") => ret.data.bytes = JoinTrim(Joined(SpanLines), delim)

C3_BlankLineLaw ==
    MainCall =>
        /\ Len(SpanLines) >= 1
        /\ SpanLines[1].c = <<>> =>
            /\ SpanLines[1].t
            /\ Len(SpanLines) = 1
            /\ ret.data.bytes = <<>>
        /\ \A i \in 2..Len(SpanLines) : SpanLines[i].c # <<>>

\* Scenario B with a twist: the blank line was returned on its own after a
\* first record, and a line that begins with a space or tab follows it.
C3_Witness ==
    /\ MainCall
    /\ Len(out) = 2
    /\ out[1] # <<>>
    /\ SpanLines = << [c |-> <<>>, t |-> TRUE] >>
    /\ ret.data.bytes = <<>>
    /\ StartsWS(Unread)

\* ------------------------------------------------------------------ C4
\* C4: when no physical line of the input begins with a space or tab, the
\* logical lines main has printed are the stream's physical lines in order,
\* each with only its leading and trailing spaces and tabs removed, and all
\* of them once main's loop has ended (streams that end with end-of-stream).
NoContinuationMarkers(ls) == \A i \in 1..Len(ls) : ~StartsWS(ls[i].c)

C4_LinePerLine ==
    LET ls == PhysLines(input) IN
    (caller = "main" /\ pc = "idle" /\ endErr = "EOF" /\ pass = 0
        /\ NoContinuationMarkers(ls)) =>
        /\ Len(out) <= Len(ls)
        /\ \A i \in 1..Len(out) : out[i] = Stripped(ls[i].c)
        /\ exit # "running" => Len(out) = Len(ls)

\* ------------------------------------------------------------------ C5
\* C5 as stated: in every call the lines after the first are consumed as
\* continuations exactly while they begin with a space or tab: every line
\* of the call after its first begins with one, and the call stops at the
\* start of a line that does not (or at the end of the stream).
C5_Raw ==
    MainCall =>
        /\ \A i \in 2..Len(SpanLines) : StartsWS(SpanLines[i].c)
        /\ AtLineStart(startCur) /\ AtLineStart(Cursor)
        /\ ~StartsWS(Unread)

\* C5 amended: the same in every call whose first line is not empty; a call
\* whose first line is empty consumes that line alone.
C5_ContinuationSetNonBlank ==
    MainCall =>
        /\ AtLineStart(startCur) /\ AtLineStart(Cursor)
        /\ Len(SpanLines) >= 1
        /\ \A i \in 2..Len(SpanLines) : StartsWS(SpanLines[i].c)
        /\ IF SpanLines[1].c = <<>> THEN Len(SpanLines) = 1
           ELSE ~StartsWS(Unread)

\* A call that took one continuation line and stopped before a line that
\* begins with neither a space nor a tab.
C5_Witness ==
    /\ MainCall
    /\ Len(SpanLines) = 2
    /\ k = 1
    /\ Len(Unread) > 0
    /\ ~StartsWS(Unread)

\* ------------------------------------------------------------------ C6
\* The two lines of a folded stream.
FoldL == PhysLines(input)[1].c

FoldL2 == Tail(PhysLines(input)[2].c)

\* C6 as stated: for every L and L2, decoding L followed by "\t" + L2 with
\* the delimiter " " yields the one logical line trim(L) " " trim(L2).
C6_Raw ==
    exit = "ok" => out = << Stripped(FoldL) \o <<SP>> \o Stripped(FoldL2) >>

\* C6 amended: for every L that is not empty; an empty L is returned on its
\* own as an empty logical line, and trim(L2) as a second one.
C6_FoldingRoundTrip ==
    exit = "ok" =>
        IF FoldL # <<>>
            THEN out = << Stripped(FoldL) \o <<SP>> \o Stripped(FoldL2) >>
            ELSE out = << <<>>, Stripped(FoldL2) >>

\* The fold of an L with a trailing space and an L2 with a leading tab was
\* decoded.
C6_Witness ==
    /\ exit = "ok"
    /\ Len(FoldL) = 2 /\ FoldL[2] = SP /\ FoldL[1] = 97
    /\ Len(FoldL2) = 2 /\ FoldL2[1] = TAB /\ FoldL2[2] = 35
    /\ out = << <<97, SP, 35>> >>

\* ------------------------------------------------------------------ C7
NoLineEndsInCR(ls) ==
    \A i \in 1..Len(ls) : Len(ls[i].c) = 0 \/ ls[i].c[Len(ls[i].c)] # CR

RECURSIVE Trims(_)
Trims(ls) == IF Len(ls) = 0 THEN <<>> ELSE <<Stripped(ls[1].c)>> \o Trims(Tail(ls))

\* C7 (idempotence): decoding a stream without continuation markers returns
\* its lines unchanged but for the trim, and decoding what was printed
\* returns the same lines again, however often.  Stated in the code's
\* favour, for streams none of whose lines ends in a carriage return (such a
\* line is printed as "...\r\n" and read back without its "\r").
C7_Idempotent ==
    LET ls == PhysLines(input) IN
    (exit = "ok" /\ NoContinuationMarkers(ls) /\ NoLineEndsInCR(ls)) =>
        /\ out = Trims(ls)
        /\ pass > 0 => out = prev

\* ------------------------------------------------------------------ C8
\* The validator ran on the first line of the last call and rejected it.
Rejected ==
    /\ Returned
    /\ ~line.isNil
    /\ Len(line.bytes) > 0
    /\ \/ validator = "rejectHash" /\ line.bytes[1] = 35
       \/ validator = "rejectAll"

C9_FailedContinuationAbsorbed ==
    (Returned /\ absorbed # "nil") =>
        /\ absorbed \in {"EOF", "IOERR"}
        /\ ret.err = "nil"
        /\ ~ret.data.isNil
        /\ Len(SpanLines) >= k + 1
        /\ ret.data.bytes = JoinTrim(Take(SpanLines, k + 1), delim)
        /\ Len(out) = startOut + 1
        /\ out[Len(out)] = ret.data.bytes
        /\ exit = "running"

\* Scenario E: the read failed with an I/O error after one continuation
\* line had been appended.
C9_Witness ==
    /\ Returned
    /\ absorbed = "IOERR"
    /\ k = 1
    /\ ret.err = "nil"
    /\ Len(ret.data.bytes) > Len(delim)

\* ----------------------------------------------------------------- C10
\* C10: when the read of the first line fails, ReadContinuedLine and
\* ReadContinuedLineBytes return no data and the error of the underlying
\* stream as it is, end-of-stream or I/O error; and they return no other
\* error.
C10_FirstLineErrorUnchanged ==
    (Returned /\ api \in {"ReadContinuedLine", "ReadContinuedLineBytes"}) =>
        /\ line.isNil =>
            /\ ret.err \in {"EOF", "IOERR"}
            /\ ret.err = br.serr
            /\ ret.data.bytes = <<>>
            /\ api = "ReadContinuedLineBytes" => ret.data.isNil
            /\ Len(out) = startOut
        /\ ret.err # "nil" => line.isNil

\* ReadContinuedLineBytes met an I/O error on the first line of a record,
\* in a stream that goes on after the error.
C10_Witness ==
    /\ Returned
    /\ api = "ReadContinuedLineBytes"
    /\ ret.err = "IOERR"
    /\ ret.data.isNil
    /\ Len(br.src) > 0

\* ----------------------------------------------------------------- C11
\* A step that is a call of readContinuedLineSlice without a validator.
NilValidatorCall == pc = "idle" /\ validator' = "nil"

\* C11: a call of readContinuedLineSlice without a validator returns a
\* configuration error and no data, whatever the stream holds and wherever
\* it stands, and leaves the stream (cursor, buffered bytes, pending error)
\* and the accumulation buffer as they were; the caller is handed nothing.
C11_NilValidatorBeforeIO ==
    [][NilValidatorCall =>
        /\ ret' = [data |-> NilSlice, err |-> "ConfigurationError"]
        /\ br' = br
        /\ buf' = buf
        /\ out' = out
        /\ pc' = "idle"]_vars

\* The call was made in mid-stream, with bytes buffered and r.buf in use.
C11_Witness ==
    /\ Returned
    /\ validator = "nil"
    /\ ret.err = "ConfigurationError"
    /\ Cursor > 0
    /\ Cursor = startCur
    /\ Len(br.rbuf) > 0
    /\ Len(buf) > 0

\* ----------------------------------------------------------------- C12
\* C12: whenever the call takes the fast path, the general path, taken from
\* the same state of the stream instead, returns the same bytes (the
\* trimmed first line) and leaves the stream in the same state, buffered
\* bytes and pending error included, so that every later call reads the
\* same; this for every size of the underlying reads.
C12_FastPathPreserving ==
    (pc = "fast" /\ FastPathTaken(br)) =>
        \A c \in Chunks :
            LET g == generalPath(br, line.bytes, delim, c) IN
            /\ g.data = trim(line.bytes)
            /\ g.b = br

\* The fast path is about to be taken for a first line with white space to
\* trim, before a line that starts with a letter.
C12_Witness ==
    /\ pc = "fast"
    /\ FastPathTaken(br)
    /\ isASCIILetter(br.rbuf[1])
    /\ trim(line.bytes) # line.bytes
    /\ Len(trim(line.bytes)) > 0

\* ----------------------------------------------------------------- C13
\* C13: the bytes ReadContinuedLineBytes returns are a fresh allocation of
\* its own, on every path of the call: they lie neither in the stream
\* buffer of the bufio.Reader, which later reads overwrite, nor in r.buf,
\* which later calls overwrite, so that no later call changes them and no
\* write into them reaches the reader; and they hold the logical line.
C13_BytesResultIsCopy ==
    (Returned /\ api = "ReadContinuedLineBytes" /\ ~ret.data.isNil) =>
        /\ ret.data.mem = "heap"
        /\ ret.err = "nil"
        /\ ret.data.bytes = out[Len(out)]

\* ReadContinuedLineBytes returned a joined line, which the reader holds in
\* r.buf.
C13_Witness ==
    /\ Returned
    /\ api = "ReadContinuedLineBytes"
    /\ k = 1
    /\ ret.data.mem = "heap"
    /\ Len(ret.data.bytes) > 0
    /\ ret.data.bytes = buf

\* ----------------------------------------------------------------- C14
\* C14: main prints exactly the string of each call that returns without
\* error, after what it printed before, and nothing for a call that returns
\* an error; that call ends its loop, and nothing is printed or read once
\* main has left the loop.
C14_OneLinePerSuccessfulCall ==
    [][/\ exit = "running"
       /\ IF pc' = "idle" /\ ret'.err = "nil"
            THEN out' = Append(out, ret'.data.bytes) /\ exit' = "running"
            ELSE out' = out
       /\ (pc' = "idle" /\ ret'.err # "nil") => exit' # "running"]_vars

\* main printed two lines and then left its loop.
C14_Witness ==
    /\ caller = "main"
    /\ exit # "running"
    /\ Len(out) = 2
    /\ out[1] # out[2]
    /\ ret.err # "nil"

\* ----------------------------------------------------------------- C15
\* C15: main returns normally exactly when its loop ended on end-of-stream,
\* and ends in log.Fatalf (one message, exit status 1) exactly when it ended
\* on any other error; while no call has returned an error the loop goes on.
C15_ExitStatus ==
    (caller = "main" /\ pc = "idle") =>
        /\ exit = "ok" <=> ret.err = "EOF"
        /\ exit = "fatal" <=> ret.err \notin {"nil", "EOF"}
        /\ exit = "running" <=> ret.err = "nil"

\* main ended on an I/O error after it had printed a line.
C15_Witness ==
    /\ caller = "main"
    /\ exit = "fatal"
    /\ ret.err = "IOERR"
    /\ Len(out) > 0

\* ----------------------------------------------------------------- C16
\* C16: with the default delimiter " ", no logical line ReadContinuedLine
\* returns ends with a space or tab.  The code breaks it: for a continuation
\* line of only spaces and tabs that has its terminator, the delimiter is
\* appended and nothing after it.
C16_NoTrailingWhiteSpace ==
    (MainCall /\ delim = <<SP>>) =>
        LET r == ret.data.bytes IN Len(r) = 0 \/ ~InWS(r[Len(r)])

\* ----------------------------------------------------------------- C19
\* A step that is a call whose first line was read and is empty.
BlankFirstLineCall ==
    /\ pc = "idle"
    /\ validator' # "nil"
    /\ ~line'.isNil
    /\ line'.bytes = <<>>

\* C19: a call whose first line is empty returns it at once, also under a
\* validator that rejects every line: the result is the empty line and no
\* error, r.buf is untouched, and the stream cursor has moved past the
\* terminator of that line and no further, so that the next call starts
\* with the line that follows.
C19_BlankFirstLineReturnsAtOnce ==
    [][BlankFirstLineCall =>
        /\ pc' = "idle"
        /\ ret'.err = "nil"
        /\ ret'.data.bytes = <<>>
        /\ ~ret'.data.isNil
        /\ out' = Append(out, <<>>)
        /\ buf' = buf
        /\ k' = 0 /\ absorbed' = "nil"
        /\ SubSeq(input, Cursor + 1, Cursor') \in {<<LF>>, <<CR, LF>>}]_vars

\* An empty line was returned under the validator that rejects every line,
\* and a line that begins with a space or tab is next in the stream.
C19_Witness ==
    /\ Returned
    /\ validator = "rejectAll"
    /\ ~line.isNil /\ line.bytes = <<>>
    /\ ret.err = "nil"
    /\ Len(buf) > 0
    /\ StartsWS(Unread)

\* ----------------------------------------------------------------- C20
\* C20: the first line readLineSlice hands a call is the whole content of
\* the physical line the stream holds at the call's start, without its
\* terminator, whatever its length and whether it has a terminator or ends
\* with the stream, and however the underlying reads cut it up (streams
\* that end with end-of-stream).  The code breaks it for a last line without
\* terminator that fills the stream buffer a whole number of times.
C20_LineIsWholePhysicalLine ==
    (api # "none" /\ endErr = "EOF" /\ pass = 0) =>
        IF startCur < Len(input)
            THEN /\ ~line.isNil
                 /\ line.bytes = PhysLines(Drop(input, startCur))[1].c
            ELSE line.isNil

\* ----------------------------------------------------------------- C17
\* The weekdays by their names, from a Thursday on: 2025-05-01, the day of
\* the tests, was a Thursday.
DayNames == <<"thu", "fri", "sat", "sun", "mon", "tue", "wed">>

LongDayNames ==
    <<"thursday", "friday", "saturday", "sunday", "monday", "tuesday",
      "wednesday">>

\* The day z falls on the weekday called w.
FallsOn(z, w) ==
    LET i == ((z - DaysFromCivil(2025, 5, 1)) % 7) + 1 IN
    w = DayNames[i] \/ w = LongDayNames[i]

\* The minute of the day the at-clause a names, 00:00 for none.
ClockOf(a) ==
    IF a = <<>> THEN 0
    ELSE IF a[2].k = "int" THEN 60 * a[2].num
    ELSE 60 * a[2].h + a[2].mi

\* C17: for every reference time and every at-clause (none, or "at T"),
\* ParseHuman returns a time whose time of day is T (00:00 without a
\* clause) and whose date is: for "next W", the one day among the 7 days
\* after now's date that falls on W; for "tomorrow" and "next day", the
\* day after now's date; for "next week", 7 days after; for "in N days",
\* N days after; for "in N weeks", 7*N days after (in a location whose
\* clock has no transitions).
C17_RelativeDates ==
    res.done =>
        \A a \in AtClauses :
            LET is(p) == tokens = p \o a
                at(z) == res.ok /\ res.t = [day |-> z, min |-> ClockOf(a)]
            IN
            /\ \A w \in WeekdayWords :
                    is(<<TokWord("next"), TokWord(w)>>) =>
                        /\ res.ok
                        /\ res.t.min = ClockOf(a)
                        /\ res.t.day \in (now.day + 1)..(now.day + 7)
                        /\ FallsOn(res.t.day, w)
            /\ is(<<TokWord("tomorrow")>>) => at(now.day + 1)
            /\ is(<<TokWord("next"), TokWord("day")>>) => at(now.day + 1)
            /\ is(<<TokWord("next"), TokWord("week")>>) => at(now.day + 7)
            /\ \A n \in (-1)..MaxCount :
                /\ \A u \in {"day", "days"} :
                       is(<<TokWord("in"), TokInt(n), TokWord(u)>>)
                           => at(now.day + n)
                /\ \A u \in {"week", "weeks"} :
                       is(<<TokWord("in"), TokInt(n), TokWord(u)>>)
                           => at(now.day + 7 * n)

\* "next thursday at 4:57pm" was parsed on 2024-02-29, a Thursday, at noon:
\* the result is a week later, 2024-03-07 16:57.
C17_Witness ==
    /\ res.done
    /\ now = Date(2024, 2, 29, 12, 0)
    /\ tokens = <<TokWord("next"), TokWord("thursday"), TokWord("at"),
                  TokClock(4, 16, 57)>>
    /\ res.ok
    /\ res.t = Date(2024, 3, 7, 16, 57)

\* ----------------------------------------------------------------- C18
\* The input holds the word w at place i.
HasWordAt(i, w) == i \in 1..Len(tokens) /\ tokens[i] = TokWord(w)

\* A token that is a time of day: a clock text in range, or an hour.
IsTimeOfDay(t) ==
    \/ t.k = "clock" /\ t.h \in 0..23 /\ t.mi \in 0..59
    \/ t.k = "int" /\ t.num \in 0..23

\* C18: ParseHuman returns an error for every input that is empty, that
\* ends in "next" or in "at", that has after "next" a word other than
\* "day", "week" or a weekday, that has after "at" no time of day, or that
\* holds "foo", a token that is no date, month, day or keyword.  The code
\* breaks it: the tokens after a date, after a month and day, and after
\* the time of the first "at" are never looked at.
C18_ErrorOnBadInput ==
    (/\ res.done
     /\ \/ Len(tokens) = 0
        \/ HasWordAt(Len(tokens), "next")
        \/ HasWordAt(Len(tokens), "at")
        \/ \E i \in 1..(Len(tokens) - 1) :
               /\ HasWordAt(i, "next")
               /\ tokens[i + 1] \notin
                      { TokWord(w) : w \in WeekdayWords \cup {"day", "week"} }
        \/ \E i \in 1..(Len(tokens) - 1) :
               HasWordAt(i, "at") /\ ~IsTimeOfDay(tokens[i + 1])
        \/ \E i \in 1..Len(tokens) : HasWordAt(i, "foo"))
    => ~res.ok

\* ----------------------------------------------------------------- C21
\* The underlying Read has an I/O error in store in the stream s.
HasIOErr(s) == \E i \in 1..Len(s) : s[i] = IOERR

\* A step that is the first-line read of a call, in which the underlying
\* Read reported its I/O error to the buffered stream.
FirstReadMetIOErr ==
    /\ pc = "idle"
    /\ validator' # "nil"
    /\ HasIOErr(br.src)
    /\ ~HasIOErr(br'.src)

\* C21: when the underlying stream reports an I/O error during the line
\* read of readLineSlice, the read returns that error and no line, and the
\* call that made it returns the error; and a call whose first-line read
\* returns an error holds no line data.  The code breaks the first part:
\* when bytes of the line were read before the error, bufio's ReadLine
\* returns them as a whole line and drops the error.
C21_IOErrorAbortsLineRead ==
    [][/\ FirstReadMetIOErr =>
            /\ line'.isNil
            /\ pc' = "idle"
            /\ ret'.err = "IOERR"
       /\ (pc = "idle" /\ pc' = "idle" /\ validator' # "nil"
                /\ ret'.err \in {"EOF", "IOERR"}) => line'.isNil]_vars

\* ----------------------------------------------------------------- C22
\* The last call did not take the general path: its first-line read failed,
\* or its first line was blank or rejected, or it took the fast path.
OffGeneralPath == Returned /\ validator # "nil" /\ k = 0 /\ buf # ret.data.bytes

FirstLineRead == api # "none" /\ validator # "nil" /\ ~line.isNil /\ line.bytes # <<>>

\* What the validator has been called with by the running or last call:
\* once with the first line as read when that line was read and is not
\* empty, at the cursor the read of that line left, and not at all
\* otherwise; on a stream without I/O error the argument is the first
\* physical line after the cursor the call began at, white space included.
ValidatorCalls ==
    /\ Len(vcalls) = (IF FirstLineRead THEN 1 ELSE 0)
    /\ FirstLineRead =>
        /\ vcalls[1].arg = line.bytes
        /\ ~HasIOErr(input) =>
            LET ls == PhysLines(Drop(input, startCur))
                at == vcalls[1].at
            IN /\ Len(ls) > 0
               /\ vcalls[1].arg = ls[1].c
               /\ PhysLines(SubSeq(input, startCur + 1, at)) = <<ls[1]>>
               /\ ls[1].t => input[at] = LF

\* C23: in every call whose first physical line is read successfully and is
\* not empty the validator is invoked exactly once, on the raw bytes of the
\* first line, before any lookahead or further read of the stream; it is
\* not invoked for a blank first line, and no step of the call after the
\* first line (lookahead, skipSpace, a continuation line) invokes it.
C23_ValidatorOnceOnRawFirstLine ==
    /\ []ValidatorCalls
    /\ [][pc # "idle" => vcalls' = vcalls]_vars

\* A call with a validator that took a continuation line after a first
\* line with leading and trailing white space.
C23_Witness ==
    /\ Returned
    /\ validator = "rejectHash"
    /\ ~HasIOErr(input)
    /\ k = 1
    /\ Len(vcalls) = 1
    /\ vcalls[1].arg = <<TAB, 97, SP, 35, SP>>
    /\ ret.data.bytes = <<97, SP, 35, SP, 97, SP, 35>>

\* ----------------------------------------------------------------- C24
\* What the validator v answers for the line l.
Verdict(v, l) ==
    CASE v = "rejectHash" -> (IF l[1] = 35 THEN "ValidationError" ELSE "nil")
      [] v = "rejectAll" -> "ValidationError"
      [] v = "rejectAsEOF" -> "EOF"
      [] OTHER -> "nil"

\* The last call returned because its validator rejected the first line.
ValidationFailed ==
    Returned /\ FirstLineRead /\ Verdict(validator, line.bytes) # "nil"

C25_NoStaleBufferBytes ==
    [][/\ (pc = "fast" /\ pc' = "idle") =>
            /\ br' = br
            /\ ret'.data.bytes = Stripped(line.bytes)
       /\ pc \in {"skip", "cont"} =>
            /\ ~HasIOErr(input) =>
                buf = JoinTrim(Take(PhysLines(SubSeq(input, startCur + 1,
                                                    Cursor)), k + 1), delim)
            /\ pc' = "idle" =>
                /\ ret'.data.mem # "bufio"
                /\ ret'.data.bytes = buf
                /\ ret'.data.bytes = buf'
      ]_vars

\* A caller of readContinuedLineSlice was handed r.buf, holding two lines,
\* after the stream buffer that held the first line was read again.
C25_Witness ==
    /\ ReturnedLine
    /\ api = "readContinuedLineSlice"
    /\ line.mem = "bufio"
    /\ k = 1
    /\ Cursor > startCur + Len(line.bytes) + 1
    /\ ret.data.mem = "rbuf"
    /\ ret.data.bytes # Stripped(line.bytes)
    /\ ~HasIOErr(input)

\* ----------------------------------------------------------------- C26
\* The bytes among the items of the stream s.
RECURSIVE DataBytes(_)
DataBytes(s) ==
    IF Len(s) = 0 THEN <<>>
    ELSE (IF Head(s) = IOERR THEN <<>> ELSE <<Head(s)>>) \o DataBytes(Tail(s))

\* The length of the run of spaces and tabs s begins with; an I/O error of
\* the stream ends the run.
RECURSIVE WSRun(_)
WSRun(s) == IF Len(s) > 0 /\ Head(s) \in WS THEN 1 + WSRun(Tail(s)) ELSE 0

\* The stream b has not handed out yet: what it buffers and what its source
\* still holds.
Ahead(b) == b.rbuf \o b.src

\* The run of spaces and tabs at the cursor of b: an error b has in store
\* comes after the bytes b buffers.
RunAt(b) ==
    IF b.berr # "nil" /\ WSRun(b.rbuf) = Len(b.rbuf)
        THEN Len(b.rbuf) ELSE WSRun(Ahead(b))

\* C26: skipSpace consumes exactly the maximal run of spaces and tabs at the
\* stream cursor and returns its length; it consumes no other byte: the
\* byte that ends the run, a line terminator included, is the next the
\* stream delivers; when it returns 0 no byte is consumed and the
\* continuation loop stops, the call returning r.buf; otherwise the loop
\* body runs.
C26_SkipSpaceConsumesMaximalRun ==
    [][pc = "skip" =>
        LET run == RunAt(br) IN
        /\ \A c \in Chunks :
            LET s == skipSpace(br, c) IN
            /\ s.n = run
            /\ DataBytes(Ahead(s.b)) = Drop(DataBytes(Ahead(br)), run)
        /\ DataBytes(Ahead(br')) = Drop(DataBytes(Ahead(br)), run)
        /\ ~HasIOErr(input) =>
            /\ run = WSRun(Unread)
            /\ Cursor' = Cursor + run
            /\ Unread' # <<>> => Unread'[1] \notin WS
        /\ run = 0 =>
            /\ DataBytes(Ahead(br')) = DataBytes(Ahead(br))
            /\ pc' = "idle"
            /\ ret'.err = "nil"
            /\ ret'.data.bytes = buf
        /\ run > 0 => pc' = "cont"
      ]_vars

\* skipSpace has consumed the tab a continuation line begins with, and the
\* letter after it is the next byte of the stream.
C26_Witness ==
    /\ pc = "cont"
    /\ ~HasIOErr(input)
    /\ Cursor > startCur + 1
    /\ input[Cursor] = TAB
    /\ input[Cursor - 1] = LF
    /\ Unread # <<>>
    /\ Unread[1] = 97

\* ----------------------------------------------------------------- C27
\* Every successful call has consumed at least one physical line, and main
\* has printed at most as many lines as the stream has handed out.
ProgressPerCall ==
    /\ ReturnedLine => Cursor > startCur /\ Len(SpanLines) >= 1
    /\ Len(out) <= Len(PhysLines(Take(input, Cursor)))
    /\ Len(out) <= Len(PhysLines(input))

\* C27: every successful ReadContinuedLine call consumes at least one
\* physical line, so main's loop of calls ends on every finite stream: the
\* calls that return a line are at most as many as the physical lines, the
\* call after them returns the error the stream ends with, and main leaves
\* its loop, normally when that error is end-of-stream.
C27_ProgressAndTermination ==
    /\ []ProgressPerCall
    /\ [](Returned /\ ret.err # "nil" => exit # "running")
    /\ <>(exit # "running")
    /\ (endErr = "EOF") ~> (exit = "ok")

\* main has ended normally after as many successful calls as the stream has
\* physical lines, and one more call.
C27_Witness ==
    /\ exit = "ok"
    /\ ret.err = "EOF"
    /\ Len(PhysLines(input)) = MaxLines - 1
    /\ Len(out) = MaxLines - 1

\* ----------------------------------------------------------------- C28
\* The segments of the logical line l, which the delimiter byte d separates.
RECURSIVE Segments(_, _)
Segments(l, d) ==
    LET i == IndexByte(l, d) IN
    IF i = 0 THEN <<l>> ELSE <<Take(l, i - 1)>> \o Segments(Drop(l, i), d)

\* The segments of the logical lines ls, in order.
RECURSIVE AllSegments(_, _)
AllSegments(ls, d) ==
    IF Len(ls) = 0 THEN <<>>
    ELSE Segments(Head(ls), d) \o AllSegments(Tail(ls), d)

\* C28: no data is lost, duplicated or reordered.  When main has read a
\* stream to end-of-stream, with a delimiter byte no line holds, the
\* segments of the lines it was handed are, in order, the trimmed contents
\* of the physical lines of the stream, one segment for each line.  The
\* code breaks it: a last line without terminator that fills the stream
\* buffer a whole number of times is lost with all its bytes.
C28_NoDataLost ==
    (exit = "ok" /\ delim = <<124>> /\ pass = 0) =>
        AllSegments(out, 124) = Trims(PhysLines(input))

\* ----------------------------------------------------------------- C30
\* The stream b has an I/O error to come: in store, or due from its source.
ErrAhead(b) == b.berr = "IOERR" \/ HasIOErr(b.src)

\* The bytes b delivers before that error.
BytesBeforeErr(b) ==
    IF b.berr = "IOERR" THEN b.rbuf
    ELSE b.rbuf \o Take(b.src, IndexByte(b.src, IOERR) - 1)

\* skipSpace is about to run and will meet the error: only spaces and tabs,
\* or nothing, come before it.
SkipSpaceMeetsError ==
    pc = "skip" /\ ErrAhead(br) /\ AllWS(BytesBeforeErr(br))

\* C30: an error of the stream that skipSpace meets is not lost: the
\* buffered stream has it in store when skipSpace returns, for the next
\* read to return, and a call whose skipSpace skipped nothing returns its
\* line as success.  The code breaks it: ReadByte hands skipSpace the error
\* and clears it, and the next read asks the source again.
C30_SkipSpaceErrorKept ==
    [][SkipSpaceMeetsError =>
        /\ br'.berr = "IOERR"
        /\ pc' = "idle" => ret'.err = "nil" /\ ret'.data.bytes = buf
      ]_vars

\* ----------------------------------------------------------------- C29
\* The bytes of the tokens ts, one after the other.
RECURSIVE Concat(_)
Concat(ts) == IF Len(ts) = 0 THEN <<>> ELSE Head(ts) \o Concat(Tail(ts))

\* The goroutine is blocked in a send, and process in a receive.
ProducerBlocked ==
    \/ prod.pc \in {"emitCur", "last"} /\ ~CanEmit(toks, prod.cur)
    \/ prod.pc = "emitSym" /\ ~CanEmit(toks, prod.sym)

ConsumerBlocked == cons.pc = "range" /\ toks.q = <<>> /\ ~toks.closed

\* What the goroutine holds and has still to send: cur, unless it has just
\* been sent, and the terminal symbol after it.
ToSend == (IF prod.pc = "emitSym" THEN <<>> ELSE prod.cur) \o prod.sym

\* C29: tokenize's goroutine and the range loop of process never deadlock,
\* whatever the number of tokens and the capacity of the channel; no empty
\* token is sent; the tokens received, those in the channel and what the
\* goroutine has still to send are, in this order, the line: every token is
\* received once, in the order of production; the loop ends only when the
\* channel is closed and empty, and then the concatenation of the received
\* tokens is the input line.  The code breaks the last part for a line that
\* is not valid UTF-8.
C29_TokensReassembleLine ==
    /\ ~(ProducerBlocked /\ ConsumerBlocked)
    /\ Len(toks.q) <= ChanCap
    /\ \A i \in 1..Len(toks.q) : toks.q[i] # <<>>
    /\ \A i \in 1..Len(cons.got) : cons.got[i] # <<>>
    /\ Concat(cons.got) \o Concat(toks.q) \o ToSend \o prod.rest = lline
    /\ cons.pc = "done" =>
        /\ prod.pc = "done"
        /\ toks.closed
        /\ toks.q = <<>>
        /\ Concat(cons.got) = lline

====
